---- MODULE Spec2Model ----
(***************************************************************************)
(* Model of the schema-form component (tosijs-schema-form): the recursive  *)
(* schema-to-DOM renderer, the path-based data collector, the array item   *)
(* list manager, the union variant detector and the SchemaForm component.  *)
(*                                                                         *)
(* JavaScript values are tagged records so that values of different        *)
(* runtime types can be compared:                                          *)
(*   [t |-> "undefined"], [t |-> "null"], [t |-> "nan"],                   *)
(*   [t |-> "str", s |-> ...], [t |-> "num", n |-> ...],                   *)
(*   [t |-> "bool", b |-> ...],                                            *)
(*   [t |-> "obj", e |-> f], [t |-> "arr", e |-> f]                        *)
(* where f maps path tokens (property keys) to values.  A path string such *)
(* as  orders[1].items[0].sku  is the token sequence                       *)
(* <<Nm("orders"), Ix(1), Nm("items"), Ix(0), Nm("sku")>>.                 *)
(* Presentation-only parts of the DOM (labels, ids, css classes, required  *)
(* markers, descriptions) are not part of the state.                       *)
(* The notifications a step dispatches (schema-input, schema-submit,       *)
(* schema-change) are recorded in events, in dispatch order.               *)
(***************************************************************************)
EXTENDS Integers, Sequences, FiniteSets, TLC

VARIABLES
  schema,        \* SchemaForm._schema
  data,          \* SchemaForm._data
  renderQueued,  \* a render pass is queued for the next tick (queueRender)
  dom,           \* the component's content (what render() built)
  passes,        \* render passes run since the last assignment
  burst,         \* assignments made since the last render pass
  assigns,       \* schema/data assignments made so far
  last,          \* the last operation taken and its arguments
  ops,           \* user actions taken so far
  events,        \* the notifications the last step dispatched, in order
  prevented,     \* the last step called preventDefault on its native event
  dval,          \* detectVariant: the value under detection
  dvars,         \* detectVariant: the candidate variants
  dres,          \* detectVariant: the result (-1 before the call)
  dimpl,         \* detectVariant: which source file's detector is applied
  dlabels,       \* getVariantLabel: the labels of the candidate variants
  proot,         \* setValueByPath: the root being written
  ptodo,         \* setValueByPath: the paths to write (numbers in PathList)
  pdone          \* setValueByPath: the paths written so far

vars ==
  <<schema, data, renderQueued, dom, passes, burst, assigns, last, ops, events,
    prevented, dval, dvars, dres, dimpl, dlabels, proot, ptodo, pdone>>

(***************************************************************************)
(* Bounds                                                                  *)
(***************************************************************************)
MaxNum == 50        \* numeric strings are parsed for -MaxNum..MaxNum
MaxAssign == 2      \* schema/data assignments per behaviour
MaxOps == 2         \* user actions (edit, add, remove, switch) per behaviour
MaxWrites == 3      \* paths written into one root by setValueByPath

(***************************************************************************)
(* JavaScript values                                                       *)
(***************************************************************************)
Undef == [t |-> "undefined"]
Null == [t |-> "null"]
NaN == [t |-> "nan"]
Str(s) == [t |-> "str", s |-> s]
Num(n) == [t |-> "num", n |-> n]
Bool(b) == [t |-> "bool", b |-> b]

\* path tokens: a property name or an array index
Nm(s) == [k |-> "nm", nm |-> s, ix |-> 0]
Ix(i) == [k |-> "ix", nm |-> "", ix |-> i]

EmptyObj == [t |-> "obj", e |-> <<>>]
EmptyArr == [t |-> "arr", e |-> <<>>]
\* object literal from a sequence of <<name, value>> pairs
Obj(kvs) ==
  [t |-> "obj",
   e |-> [tok \in {Nm(kvs[i][1]) : i \in 1..Len(kvs)} |->
            LET i == CHOOSE j \in 1..Len(kvs) : kvs[j][1] = tok.nm IN kvs[i][2]]]
\* array literal from a sequence of values
Arr(vs) ==
  [t |-> "arr",
   e |-> [tok \in {Ix(i - 1) : i \in 1..Len(vs)} |-> vs[tok.ix + 1]]]

IsContainer(v) == v.t \in {"obj", "arr"}
Nullish(v) == v.t \in {"undefined", "null"}
Truthy(v) ==
  CASE v.t = "str" -> v.s # ""
    [] v.t = "num" -> v.n # 0
    [] v.t = "bool" -> v.b
    [] v.t \in {"obj", "arr"} -> TRUE
    [] OTHER -> FALSE
\* value[key] (and value?.[key]): undefined unless the key is present
GetProp(v, tok) ==
  IF IsContainer(v) /\ tok \in DOMAIN v.e THEN v.e[tok] ELSE Undef
RECURSIVE GetPath(_, _)
\* the value at path inside v, undefined when the path leads nowhere
GetPath(v, path) ==
  IF Len(path) = 0 THEN v ELSE GetPath(GetProp(v, Head(path)), Tail(path))

\* key in value
HasKey(v, tok) == IsContainer(v) /\ tok \in DOMAIN v.e
\* a ?? b
Coalesce(a, b) == IF Nullish(a) THEN b ELSE a

FirstOf(S) == CHOOSE m \in S : \A j \in S : m <= j

\* array length: one past the largest index
ArrLen(v) ==
  LET idx == {tok.ix : tok \in {x \in DOMAIN v.e : x.k = "ix"}} IN
  IF idx = {} THEN 0 ELSE 1 + CHOOSE m \in idx : \A j \in idx : j <= m

(***************************************************************************)
(* String(v) and Number(s)                                                 *)
(***************************************************************************)
Digit(d) ==
  CASE d = 0 -> "0" [] d = 1 -> "1" [] d = 2 -> "2" [] d = 3 -> "3"
    [] d = 4 -> "4" [] d = 5 -> "5" [] d = 6 -> "6" [] d = 7 -> "7"
    [] d = 8 -> "8" [] d = 9 -> "9"

RECURSIVE NatStr(_)
NatStr(n) == IF n < 10 THEN Digit(n) ELSE NatStr(n \div 10) \o Digit(n % 10)

IntStr(n) == IF n < 0 THEN "-" \o NatStr(0 - n) ELSE NatStr(n)

RECURSIVE JoinStr(_, _)
\* String(v); arrays join their elements with commas
ToStr(v) ==
  CASE v.t = "str" -> v.s
    [] v.t = "num" -> IntStr(v.n)
    [] v.t = "bool" -> IF v.b THEN "true" ELSE "false"
    [] v.t = "undefined" -> "undefined"
    [] v.t = "null" -> "null"
    [] v.t = "nan" -> "NaN"
    [] v.t = "obj" -> "[object Object]"
    [] v.t = "arr" -> JoinStr(v, 0)
JoinStr(v, i) ==
  IF i >= ArrLen(v) THEN ""
  ELSE LET x == GetProp(v, Ix(i))
           s == IF Nullish(x) THEN ""
                ELSE IF x.t = "arr" THEN "[array]" ELSE ToStr(x)
       IN (IF i = 0 THEN s ELSE "," \o s) \o JoinStr(v, i + 1)

\* Number(s) for a control's text: the number it spells, NaN otherwise
ToNumber(s) ==
  IF s = "" THEN Num(0)
  ELSE IF \E n \in (0 - MaxNum)..MaxNum : IntStr(n) = s
       THEN Num(CHOOSE n \in (0 - MaxNum)..MaxNum : IntStr(n) = s)
       ELSE NaN

(***************************************************************************)
(* setValueByPath                                                          *)
(***************************************************************************)
Throw == [t |-> "throw"]

\* /^\d+$/.test(part): index tokens are the all-digit parts
IsNumericPart(tok) == tok.k = "ix"

PutKey(cur, tok, v) ==
  [cur EXCEPT !.e = [x \in (DOMAIN cur.e) \cup {tok} |->
                       IF x = tok THEN v ELSE cur.e[x]]]

RECURSIVE WalkSet(_, _, _)
\* the loop of setValueByPath from container cur along parts; assigning a
\* property on a primitive raises a TypeError (module code is strict)
WalkSet(cur, parts, v) ==
  IF Len(parts) = 0 THEN cur
  ELSE IF ~IsContainer(cur) THEN Throw
  ELSE IF Len(parts) = 1 THEN PutKey(cur, parts[1], v)
  ELSE LET part == parts[1]
           old == GetProp(cur, part)
           child == IF Nullish(old)
                    THEN (IF IsNumericPart(parts[2]) THEN EmptyArr ELSE EmptyObj)
                    ELSE old
           sub == WalkSet(child, Tail(parts), v)
       IN IF sub = Throw THEN Throw ELSE PutKey(cur, part, sub)

\* a write that starts from an empty root every time
setValueByPathFresh(obj, path, v) == IF obj = Throw THEN Throw ELSE WalkSet(EmptyObj, path, v)

setValueByPath(obj, path, v) == IF obj = Throw THEN Throw ELSE WalkSet(obj, path, v)

(***************************************************************************)
(* Schema nodes are records carrying only the keywords they declare:       *)
(* type, properties (a sequence of [key, schema] in declaration order),    *)
(* items, enum, const, anyOf, oneOf, minimum, maximum, maxItems, default,  *)
(* format, title.                                                          *)
(***************************************************************************)
Has(s, f) == f \in DOMAIN s

\* schema.type, or "" when absent
TypeOf(s) == IF Has(s, "type") THEN s.type ELSE ""

PropKeys(s) == [i \in 1..Len(s.properties) |-> s.properties[i].key]

\* schema.anyOf || schema.oneOf || null   (<<>> stands for null)
HasUnion(s) == Has(s, "anyOf") \/ Has(s, "oneOf")
getUnionVariants(s) ==
  IF Has(s, "anyOf") THEN s.anyOf ELSE IF Has(s, "oneOf") THEN s.oneOf ELSE <<>>

\* Number.isInteger: every number of the model is an integer
IsInteger(v) == v.t = "num"

\* the second pass of detectVariant for one variant
TypeMatches(variant, value) ==
  LET vt == TypeOf(variant) IN
  /\ vt # ""
  /\ \/ vt = "string" /\ value.t = "str"
     \/ vt = "number" /\ value.t \in {"num", "nan"}
     \/ vt = "integer" /\ value.t = "num" /\ IsInteger(value)
     \/ vt = "boolean" /\ value.t = "bool"
     \/ vt = "array" /\ value.t = "arr"
     \/ /\ vt = "object"
        /\ value.t = "obj"
        /\ \/ ~Has(variant, "properties")
           \/ /\ Has(variant, "properties")
              /\ \/ \E i \in 1..Len(variant.properties) :
                      /\ Has(variant.properties[i].schema, "const")
                      /\ GetProp(value, Nm(variant.properties[i].key))
                           = variant.properties[i].schema.const
                 \/ \A i \in 1..Len(variant.properties) :
                      HasKey(value, Nm(variant.properties[i].key))

\* Skip const-only variants in the second pass
ConstOnly(variant) == Has(variant, "const") /\ TypeOf(variant) = ""

detectVariant(value, variants) ==
  IF Nullish(value) THEN 0
  ELSE LET pass1 == {i \in 1..Len(variants) :
                       Has(variants[i], "const") /\ value = variants[i].const}
           pass2 == {i \in 1..Len(variants) :
                       ~ConstOnly(variants[i]) /\ TypeMatches(variants[i], value)}
       IN IF pass1 # {} THEN FirstOf(pass1) - 1
          ELSE IF pass2 # {} THEN FirstOf(pass2) - 1
          ELSE 0

\* detectVariant of src/src/schema-form.ts: one loop that tests the const
\* and the type of each variant in turn
detectVariantSinglePass(value, variants) ==
  IF Nullish(value) THEN 0
  ELSE LET hits == {i \in 1..Len(variants) :
                      \/ Has(variants[i], "const") /\ value = variants[i].const
                      \/ TypeMatches(variants[i], value)}
       IN IF hits # {} THEN FirstOf(hits) - 1 ELSE 0

\* getVariantLabel(variant, index)
getVariantLabel(variant, index) ==
  IF Has(variant, "title") /\ variant.title # "" THEN variant.title
  ELSE IF Has(variant, "const") THEN ToStr(variant.const)
  ELSE IF TypeOf(variant) # "" THEN TypeOf(variant)
  ELSE LET named == IF Has(variant, "properties")
                    THEN {i \in 1..Len(variant.properties) :
                            variant.properties[i].key \in {"type", "kind", "_type"}}
                    ELSE {}
           typeKey == FirstOf(named)   \* keys.find(...)
       IN IF named # {}
             /\ Has(variant.properties[typeKey].schema, "const")
             /\ Truthy(variant.properties[typeKey].schema.const)
          THEN ToStr(variant.properties[typeKey].schema.const)
          ELSE "Option " \o NatStr(index + 1)

RECURSIVE getDefaultValue(_)
getDefaultValue(s) ==
  IF Has(s, "default") THEN s.default
  ELSE CASE TypeOf(s) = "string" -> Str("")
         [] TypeOf(s) \in {"number", "integer"} ->
              IF Has(s, "minimum") THEN Num(s.minimum) ELSE Num(0)
         [] TypeOf(s) = "boolean" -> Bool(FALSE)
         [] TypeOf(s) = "array" -> EmptyArr
         [] TypeOf(s) = "object" ->
              IF Has(s, "properties")
              THEN Obj([i \in 1..Len(s.properties) |->
                          <<s.properties[i].key,
                            getDefaultValue(s.properties[i].schema)>>])
              ELSE EmptyObj
         [] OTHER -> Null

(***************************************************************************)
(* DOM nodes.  Every node that carries a data-path attribute has a path;   *)
(* bound controls also carry the native name attribute.                    *)
(*   "ctl"    an input, select or textarea                                 *)
(*   "range"  a range slider (ctl) with its companion number input (num)   *)
(*   "text"   a diagnostic placeholder                                     *)
(*   "object" a fieldset of child fields                                   *)
(*   "array"  a fieldset with the item container and the add controls; cl  *)
(*            is what the add handler's closure captured                   *)
(*   "union"  a fieldset with the variant selector and the content region; *)
(*            cl is what the change handler's closure captured             *)
(*   "throw"  stands for a TypeError raised while rendering                *)
(***************************************************************************)
NoPath == <<>>

Ctl(tag, itype, path, dtype, value) ==
  [k |-> "ctl", tag |-> tag, itype |-> itype, path |-> path, hasName |-> TRUE,
   name |-> path, dtype |-> dtype, union |-> FALSE, value |-> value,
   checked |-> FALSE, opts |-> <<>>, isConst |-> FALSE]

ThrowNode == [k |-> "throw"]

SeqToSet(q) == {q[i] : i \in 1..Len(q)}

\* a select element after  selectEl.value = v : the matching option, else ""
SelectValue(opts, v) == IF v \in SeqToSet(opts) THEN v ELSE ""

\* a const input that declares no data-type
ConstTypeUntyped(c) == "none"

\* typeof schema.const, with integer/number for numbers
ConstType(c) ==
  CASE c.t \in {"num"} -> "integer"
    [] c.t = "nan" -> "number"
    [] c.t = "str" -> "string"
    [] c.t = "bool" -> "boolean"
    [] c.t = "undefined" -> "undefined"
    [] OTHER -> "object"

RECURSIVE renderField(_, _, _)
RECURSIVE renderObjectField(_, _, _)
RECURSIVE renderArrayField(_, _, _)
RECURSIVE renderArrayItem(_, _, _, _, _)
RECURSIVE renderVariantContent(_, _, _)

\* the content region of a union for one variant: the variant's child
\* fields under path, or one field for a non-object variant at path itself
renderVariantContent(variant, value, path) ==
  IF TypeOf(variant) = "object" /\ Has(variant, "properties")
  THEN [i \in 1..Len(variant.properties) |->
          renderField(variant.properties[i].schema,
                      GetProp(value, Nm(variant.properties[i].key)),
                      path \o <<Nm(variant.properties[i].key)>>)]
  ELSE <<renderField(variant, value, path)>>

renderStringField(s, value, path) ==
  LET isTextarea == Has(s, "maxLength") /\ s.maxLength > 200
      v == Coalesce(value, IF Has(s, "default") THEN s.default ELSE Str(""))
  IN Ctl(IF isTextarea THEN "textarea" ELSE "input", "text", path, "string", ToStr(v))

renderField(s, value, path) ==
  IF HasUnion(s) THEN
    LET variants == getUnionVariants(s)
        allConst == \A i \in 1..Len(variants) : Has(variants[i], "const")
    IN IF allConst
       THEN LET opts == <<"">> \o [i \in 1..Len(variants) |-> ToStr(variants[i].const)]
            IN [Ctl("select", "select", path, "none",
                    IF Nullish(value) THEN "" ELSE SelectValue(opts, ToStr(value)))
                 EXCEPT !.opts = opts]
       ELSE LET currentVariantIndex == detectVariant(value, variants)
                currentVariant == variants[currentVariantIndex + 1]
            IN [k |-> "union", path |-> path, selPath |-> path,
                sel |-> currentVariantIndex,
                cl |-> [path |-> path, schema |-> s],
                dvariant |-> currentVariantIndex,
                kids |-> renderVariantContent(currentVariant, value, path)]
  ELSE IF Has(s, "const") THEN
    [Ctl("input", "hidden", path, ConstType(s.const), ToStr(s.const))
       EXCEPT !.isConst = TRUE]
  ELSE IF Has(s, "enum") THEN
    LET opts == <<"">> \o [i \in 1..Len(s.enum) |-> ToStr(s.enum[i])]
    IN [Ctl("select", "select", path, "none",
            IF Nullish(value) THEN "" ELSE SelectValue(opts, ToStr(value)))
         EXCEPT !.opts = opts]
  ELSE CASE TypeOf(s) = "string" -> renderStringField(s, value, path)
         [] TypeOf(s) \in {"number", "integer"} ->
              LET hasRange == \/ (Has(s, "format") /\ s.format = "range")
                              \/ (Has(s, "minimum") /\ Has(s, "maximum"))
                  dflt == IF Has(s, "default") THEN s.default ELSE Undef
                  minv == IF Has(s, "minimum") THEN Num(s.minimum) ELSE Undef
              IN IF hasRange
                 THEN LET currentVal ==
                            Coalesce(value, Coalesce(dflt, Coalesce(minv, Num(0))))
                      IN [k |-> "range",
                          ctl |-> Ctl("input", "range", path, TypeOf(s), ToStr(currentVal)),
                          num |-> ToStr(currentVal),
                          cl |-> [schema |-> s]]
                 ELSE Ctl("input", "number", path, TypeOf(s),
                          ToStr(Coalesce(value, Coalesce(dflt, Str("")))))
         [] TypeOf(s) = "boolean" ->
              LET dflt == IF Has(s, "default") THEN s.default ELSE Undef
              IN [Ctl("input", "checkbox", path, "boolean", "on")
                   EXCEPT !.checked = Truthy(Coalesce(value, Coalesce(dflt, Bool(FALSE))))]
         [] TypeOf(s) = "object" ->
              renderObjectField(s, IF Truthy(value) THEN value ELSE EmptyObj, path)
         [] TypeOf(s) = "array" ->
              renderArrayField(s, IF Truthy(value) THEN value ELSE EmptyArr, path)
         [] OTHER ->
              LET dflt == IF Has(s, "default") THEN s.default ELSE Undef
              IN Ctl("input", "text", path, "none",
                     ToStr(Coalesce(value, Coalesce(dflt, Str("")))))

renderObjectField(s, value, path) ==
  IF ~Has(s, "properties")
  THEN [k |-> "text", text |-> "Object without properties"]
  ELSE [k |-> "object", path |-> path,
        kids |-> [i \in 1..Len(s.properties) |->
                    renderField(s.properties[i].schema,
                                GetProp(value, Nm(s.properties[i].key)),
                                path \o <<Nm(s.properties[i].key)>>)]]

\* the indices value.forEach visits, in order (holes are skipped)
RECURSIVE IndicesFrom(_, _)
IndicesFrom(v, i) ==
  IF i >= ArrLen(v) THEN <<>>
  ELSE (IF HasKey(v, Ix(i)) THEN <<i>> ELSE <<>>) \o IndicesFrom(v, i + 1)

ItemSchemaOf(s) == IF Has(s, "items") THEN s.items ELSE [type |-> "string"]

\* an array field that gives every item the variant detected for the first
renderArrayFieldSharedVariant(s, value, path) ==
  IF value.t # "arr" THEN ThrowNode
  ELSE
    LET itemSchema == ItemSchemaOf(s)
        isUnion == HasUnion(itemSchema)
        itemVariants == getUnionVariants(itemSchema)
        idx == IndicesFrom(value, 0)
    IN [k |-> "array", path |-> path,
        cl |-> [path |-> path, schema |-> s],
        addSel |-> 0,
        items |-> [j \in 1..Len(idx) |->
                     LET item == GetProp(value, Ix(idx[j])) IN
                     IF isUnion
                     THEN LET variantIndex ==
                                detectVariant(GetProp(value, Ix(idx[1])), itemVariants)
                          IN renderArrayItem(itemVariants[variantIndex + 1], item,
                                             path \o <<Ix(idx[j])>>, idx[j], variantIndex)
                     ELSE renderArrayItem(itemSchema, item,
                                          path \o <<Ix(idx[j])>>, idx[j], -1)]]

renderArrayField(s, value, path) ==
  IF value.t # "arr" THEN ThrowNode   \* value.forEach is not a function
  ELSE
    LET itemSchema == ItemSchemaOf(s)
        isUnion == HasUnion(itemSchema)
        itemVariants == getUnionVariants(itemSchema)
        idx == IndicesFrom(value, 0)
    IN [k |-> "array", path |-> path,
        cl |-> [path |-> path, schema |-> s],
        addSel |-> 0,
        items |-> [j \in 1..Len(idx) |->
                     LET item == GetProp(value, Ix(idx[j])) IN
                     IF isUnion
                     THEN LET variantIndex == detectVariant(item, itemVariants)
                          IN renderArrayItem(itemVariants[variantIndex + 1], item,
                                             path \o <<Ix(idx[j])>>, idx[j], variantIndex)
                     ELSE renderArrayItem(itemSchema, item,
                                          path \o <<Ix(idx[j])>>, idx[j], -1)]]

\* variantIndex = -1 stands for an absent variantIndex argument
renderArrayItem(s, value, path, index, variantIndex) ==
  [index |-> index, variant |-> variantIndex, body |-> renderField(s, value, path)]

(***************************************************************************)
(* Walking the DOM                                                         *)
(***************************************************************************)
\* child nodes in document order
KidsOf(node) ==
  CASE node.k \in {"object", "union", "form"} -> node.kids
    [] node.k = "array" -> [i \in 1..Len(node.items) |-> node.items[i].body]
    [] OTHER -> <<>>

RECURSIVE Flatten(_)
Flatten(qs) == IF Len(qs) = 0 THEN <<>> ELSE Head(qs) \o Flatten(Tail(qs))

\* the variant selector of union u: a select whose option values are the
\* variant indices, with data-path and data-union but no name
SelectorOf(u) ==
  [Ctl("select", "select", u.selPath, "none", NatStr(u.sel))
     EXCEPT !.union = TRUE, !.hasName = FALSE,
            !.opts = [i \in 1..Len(getUnionVariants(u.cl.schema)) |-> NatStr(i - 1)]]

\* a selector that lets every element with a data-path through
MatchesAnyPath(el) == el.path # NoPath

\* el matches '[data-path]:not([data-union])'
Matches(el) == el.path # NoPath /\ ~el.union

RECURSIVE Controls(_)
\* form.querySelectorAll('input[data-path]:not([data-union]), select..., textarea...')
\* in document order; the range companion carries no data-path
Controls(node) ==
  CASE node.k = "ctl" -> IF Matches(node) THEN <<node>> ELSE <<>>
    [] node.k = "range" -> <<node.ctl>>
    [] OTHER -> LET kids == KidsOf(node)
                    own == IF node.k = "union" /\ Matches(SelectorOf(node))
                           THEN <<SelectorOf(node)>> ELSE <<>>
                IN own \o Flatten([i \in 1..Len(kids) |-> Controls(kids[i])])

RECURSIVE HasThrow(_)
HasThrow(node) ==
  \/ node.k = "throw"
  \/ \E i \in 1..Len(KidsOf(node)) : HasThrow(KidsOf(node)[i])

RECURSIVE AllLocs(_)
\* the positions of all nodes below node, as sequences of child numbers
AllLocs(node) ==
  {<<>>} \cup UNION {{<<i>> \o l : l \in AllLocs(KidsOf(node)[i])} :
                       i \in 1..Len(KidsOf(node))}

RECURSIVE NodeAt(_, _)
NodeAt(node, loc) ==
  IF Len(loc) = 0 THEN node ELSE NodeAt(KidsOf(node)[loc[1]], Tail(loc))

RECURSIVE ReplaceAt(_, _, _)
ReplaceAt(node, loc, new) ==
  IF Len(loc) = 0 THEN new
  ELSE LET i == loc[1]
           sub == ReplaceAt(KidsOf(node)[i], Tail(loc), new)
       IN IF node.k = "array"
          THEN [node EXCEPT !.items[i].body = sub]
          ELSE [node EXCEPT !.kids[i] = sub]

(***************************************************************************)
(* collectFormData and getData                                             *)
(***************************************************************************)
\* the value one control contributes
ControlValue(el) ==
  IF el.tag = "input" /\ el.itype = "checkbox" THEN Bool(el.checked)
  ELSE IF el.dtype \in {"number", "integer"}
       THEN (IF el.value = "" THEN Undef ELSE ToNumber(el.value))
  ELSE IF el.dtype = "boolean" THEN Bool(el.value = "true")
  ELSE Str(el.value)

RECURSIVE CollectFrom(_, _)
CollectFrom(acc, inputs) ==
  IF Len(inputs) = 0 THEN acc
  ELSE CollectFrom(setValueByPath(acc, Head(inputs).path, ControlValue(Head(inputs))),
                   Tail(inputs))

collectFormData(form) == CollectFrom(EmptyObj, Controls(form))

\* this.querySelector('form'): the first form among the component's children
\* (0 when there is none)
FormIndex(content) ==
  IF \E i \in 1..Len(content) : content[i].k = "form"
  THEN FirstOf({i \in 1..Len(content) : content[i].k = "form"})
  ELSE 0

\* a getData that always hands out the bound data
getDataAlwaysBound(content, dt) == dt

\* SchemaForm.getData on component content with bound data dt
getData(content, dt) ==
  IF FormIndex(content) = 0 THEN dt
  ELSE collectFormData(content[FormIndex(content)])

(***************************************************************************)
(* reindexArrayItems                                                       *)
(***************************************************************************)
RECURSIVE ReplaceFirstIndex(_, _)
\* currentPath.replace(/\[\d+\]/, `[${index}]`): the first index segment
ReplaceFirstIndex(path, index) ==
  IF Len(path) = 0 THEN path
  ELSE IF Head(path).k = "ix" THEN <<Ix(index)>> \o Tail(path)
  ELSE <<Head(path)>> \o ReplaceFirstIndex(Tail(path), index)

RewriteCtl(el, index) ==
  IF el.path = NoPath THEN el
  ELSE LET newPath == ReplaceFirstIndex(el.path, index)
       IN [el EXCEPT !.path = newPath,
                     !.name = IF el.hasName THEN newPath ELSE @]

RECURSIVE RewritePaths(_, _)
\* item.querySelectorAll('[data-path]').forEach(...) for one item subtree
RewritePaths(node, index) ==
  CASE node.k = "ctl" -> RewriteCtl(node, index)
    [] node.k = "range" -> [node EXCEPT !.ctl = RewriteCtl(node.ctl, index)]
    [] node.k = "object" ->
         [node EXCEPT !.path = ReplaceFirstIndex(node.path, index),
                      !.kids = [i \in 1..Len(node.kids) |-> RewritePaths(node.kids[i], index)]]
    [] node.k = "union" ->
         [node EXCEPT !.path = ReplaceFirstIndex(node.path, index),
                      !.selPath = ReplaceFirstIndex(node.selPath, index),
                      !.kids = [i \in 1..Len(node.kids) |-> RewritePaths(node.kids[i], index)]]
    [] node.k = "array" ->
         [node EXCEPT !.path = ReplaceFirstIndex(node.path, index),
                      !.items = [i \in 1..Len(node.items) |->
                                   [node.items[i] EXCEPT
                                      !.body = RewritePaths(node.items[i].body, index)]]]
    [] OTHER -> node

\* applied to the items of one container (an "array" node)
reindexArrayItems(items) ==
  [i \in 1..Len(items) |->
     [items[i] EXCEPT !.index = i - 1, !.body = RewritePaths(items[i].body, i - 1)]]

(***************************************************************************)
(* Schemas and data values the host assigns                                *)
(***************************************************************************)
P(key, s) == [key |-> key, schema |-> s]

EmptySchema == <<>>     \* {} : the component's initial _schema

StringSchema == [type |-> "string"]

PersonSchema ==
  [type |-> "object",
   properties |-> <<P("name", StringSchema),
                    P("age", [type |-> "integer"]),
                    P("active", [type |-> "boolean"])>>]

LevelSchema ==
  [type |-> "object",
   properties |-> <<P("level", [type |-> "integer", enum |-> <<Num(1), Num(2)>>])>>]

TagsSchema ==
  [type |-> "object",
   properties |-> <<P("tags", [type |-> "array", items |-> StringSchema,
                               maxItems |-> 2])>>]

OrdersSchema ==
  [type |-> "object",
   properties |->
     <<P("orders",
         [type |-> "array",
          items |-> [type |-> "object",
                     properties |-> <<P("id", StringSchema),
                                      P("items", [type |-> "array",
                                                  items |-> StringSchema])>>]])>>]

ProductVariant ==
  [type |-> "object", title |-> "Product",
   properties |-> <<P("type", [type |-> "string", const |-> Str("product")]),
                    P("name", StringSchema),
                    P("price", [type |-> "number"])>>]

ServiceVariant ==
  [type |-> "object", title |-> "Service",
   properties |-> <<P("type", [type |-> "string", const |-> Str("service")]),
                    P("name", StringSchema),
                    P("hourlyRate", [type |-> "number"])>>]

ItemSchema ==
  [type |-> "object",
   properties |-> <<P("item", [anyOf |-> <<ProductVariant, ServiceVariant>>])>>]

\* consts of each primitive type beside a range slider
SettingsSchema ==
  [type |-> "object",
   properties |-> <<P("kind", [type |-> "string", const |-> Str("settings")]),
                    P("version", [const |-> Num(2)]),
                    P("locked", [const |-> Bool(FALSE)]),
                    P("rating", [type |-> "integer", minimum |-> 0, maximum |-> 10])>>]

\* an array whose items are a union
CartSchema ==
  [type |-> "object",
   properties |-> <<P("items", [type |-> "array",
                                items |-> [anyOf |-> <<ProductVariant, ServiceVariant>>]])>>]

\* an array of objects that each hold a union of primitives
LinesSchema ==
  [type |-> "object",
   properties |->
     <<P("items",
         [type |-> "array", minItems |-> 2,
          items |-> [type |-> "object",
                     properties |-> <<P("unit", [anyOf |-> <<StringSchema,
                                                            [type |-> "integer"]>>])>>]])>>]

\* shapes the renderer does not recognise
MalformedSchema ==
  [type |-> "object",
   properties |-> <<P("blob", [type |-> "object"]),
                    P("odd", [type |-> "mystery"]),
                    P("none", [anyOf |-> <<>>]),
                    P("list", [type |-> "array"])>>]

\* schema nodes of other kinds at the root
RootListSchema == [type |-> "array", items |-> StringSchema]
RootUnionSchema == [anyOf |-> <<ProductVariant, ServiceVariant>>]
RootConstSchema == [const |-> Str("fixed")]

Schemas ==
  {EmptySchema, PersonSchema, LevelSchema, TagsSchema, OrdersSchema, ItemSchema,
   SettingsSchema, CartSchema, LinesSchema, MalformedSchema, StringSchema,
   RootListSchema,
   RootUnionSchema, RootConstSchema}

PersonData == Obj(<< <<"name", Str("Ann")>>, <<"age", Num(25)>>, <<"active", Bool(TRUE)>> >>)
TagsData == Obj(<< <<"tags", Arr(<<Str("A"), Str("B"), Str("C")>>)>> >>)
NoTagsData == Obj(<< <<"tags", EmptyArr>> >>)
OrdersData ==
  Obj(<< <<"orders",
           Arr(<<Obj(<< <<"id", Str("A")>>, <<"items", Arr(<<Str("x")>>)>> >>),
                 Obj(<< <<"id", Str("B")>>,
                        <<"items", Arr(<<Str("y"), Str("z")>>)>> >>)>>)>> >>)
ItemData ==
  Obj(<< <<"item", Obj(<< <<"type", Str("service")>>, <<"name", Str("Consulting")>>,
                          <<"hourlyRate", Num(15)>> >>)>> >>)

\* a cart of one service and one product, with values for the settings keys
CartData ==
  Obj(<< <<"items",
           Arr(<<Obj(<< <<"type", Str("service")>>, <<"name", Str("Consulting")>>,
                        <<"hourlyRate", Num(15)>> >>),
                 Obj(<< <<"type", Str("product")>>, <<"name", Str("Widget")>>,
                        <<"price", Num(5)>> >>)>>)>>,
         <<"kind", Str("other")>>, <<"version", Num(7)>>, <<"locked", Bool(TRUE)>>,
         <<"rating", Num(3)>> >>)

DataValues ==
  {EmptyObj, PersonData, TagsData, NoTagsData, OrdersData, ItemData, CartData}

\* what a user types or picks
EditStrings == {"X"}
EditNumbers == {"", "42"}

(***************************************************************************)
(* The SchemaForm component                                                *)
(***************************************************************************)
EmptyState == [k |-> "empty", text |-> "No schema provided"]

\* a render pass that appends without clearing the component first
renderWithoutClear(content, s, dt) ==
  IF ~Has(s, "type") /\ ~Has(s, "properties")
  THEN Append(content, EmptyState)
  ELSE Append(content, [k |-> "form", kids |-> <<>>])

\* a render pass that keeps a form the component already holds
renderKeepingForm(content, s, dt) ==
  IF FormIndex(content) # 0 THEN content
  ELSE IF ~Has(s, "type") /\ ~Has(s, "properties") THEN <<EmptyState>>
  ELSE <<[k |-> "form", kids |-> <<>>]>>

\* a render pass that returns at once when no schema is set
renderSkippingEmpty(content, s, dt) ==
  IF ~Has(s, "type") /\ ~Has(s, "properties")
  THEN content
  ELSE LET fields ==
             IF Has(s, "properties")
             THEN [i \in 1..Len(s.properties) |->
                     renderField(s.properties[i].schema,
                                 GetProp(dt, Nm(s.properties[i].key)),
                                 <<Nm(s.properties[i].key)>>)]
             ELSE <<renderField(s, dt, <<Nm("data")>>)>>
           formEl == [k |-> "form", kids |-> fields]
       IN IF HasThrow(formEl) THEN <<>> ELSE <<formEl>>

\* SchemaForm.render: the children of the component after a pass that
\* started with children content; a TypeError raised while the fields are
\* built leaves the component cleared
render(content, s, dt) ==
  LET cleared == <<>>      \* this.textContent = ''
  IN IF ~Has(s, "type") /\ ~Has(s, "properties")
     THEN Append(cleared, EmptyState)
     ELSE LET fields ==
                IF Has(s, "properties")
                THEN [i \in 1..Len(s.properties) |->
                        renderField(s.properties[i].schema,
                                    GetProp(dt, Nm(s.properties[i].key)),
                                    <<Nm(s.properties[i].key)>>)]
                ELSE <<renderField(s, dt, <<Nm("data")>>)>>
              formEl == [k |-> "form", kids |-> fields]
          IN IF HasThrow(formEl) THEN cleared ELSE Append(cleared, formEl)

Op(name, loc, arg) == [op |-> name, loc |-> loc, arg |-> arg]

Init ==
  /\ schema = EmptySchema
  /\ data = EmptyObj
  /\ renderQueued = TRUE
  /\ dom = <<>>
  /\ passes = 0
  /\ burst = 0
  /\ assigns = 0
  /\ last = Op("init", <<>>, 0)
  /\ ops = 0
  /\ events = <<>>
  /\ prevented = FALSE
  /\ dval = Undef
  /\ dvars = <<>>
  /\ dres = -1
  /\ dimpl = "blueprint"
  /\ dlabels = <<>>
  /\ proot = EmptyObj
  /\ ptodo = {}
  /\ pdone = {}

detectVars == <<dval, dvars, dres, dimpl, dlabels, proot, ptodo, pdone>>

\* this._schema = s; this.queueRender()
SetSchema(s) ==
  /\ assigns < MaxAssign
  /\ schema' = s
  /\ renderQueued' = TRUE
  /\ burst' = burst + 1
  /\ assigns' = assigns + 1
  /\ passes' = 0
  /\ last' = Op("schema", <<>>, 0)
  /\ events' = <<>>
  /\ prevented' = FALSE
  /\ UNCHANGED <<data, dom, ops, detectVars>>

\* this._data = d; this.render()  -- a setter that renders at once
SetDataRendersNow(d) ==
  /\ assigns < MaxAssign
  /\ data' = d
  /\ dom' = render(dom, schema, d)
  /\ passes' = passes + 1
  /\ burst' = burst + 1
  /\ assigns' = assigns + 1
  /\ last' = Op("data", <<>>, 0)
  /\ events' = <<>>
  /\ prevented' = FALSE
  /\ UNCHANGED <<schema, renderQueued, ops, detectVars>>

\* this._data = d; this.queueRender()
SetData(d) ==
  /\ assigns < MaxAssign
  /\ data' = d
  /\ renderQueued' = TRUE
  /\ burst' = burst + 1
  /\ assigns' = assigns + 1
  /\ passes' = 0
  /\ last' = Op("data", <<>>, 0)
  /\ events' = <<>>
  /\ prevented' = FALSE
  /\ UNCHANGED <<schema, dom, ops, detectVars>>

\* the queued render pass runs
RenderTick ==
  /\ renderQueued
  /\ renderQueued' = FALSE
  /\ dom' = render(dom, schema, data)
  /\ passes' = passes + 1
  /\ burst' = 0
  /\ last' = Op("render", <<>>, burst)
  /\ events' = <<>>
  /\ prevented' = FALSE
  /\ UNCHANGED <<schema, data, assigns, ops, detectVars>>

(***************************************************************************)
(* User actions on the rendered form                                       *)
(***************************************************************************)
\* the rendered form, the target of all user actions
HasForm == FormIndex(dom) # 0
Form == dom[FormIndex(dom)]
WithForm(f) == [dom EXCEPT ![FormIndex(dom)] = f]

\* user events are handled on a settled component: a queued render pass runs
\* before the next user event is handled
Interactive == HasForm /\ ~renderQueued

\* the notification the form's onInput handler dispatches on the component:
\* new CustomEvent('schema-input', {bubbles: true, detail: {data: getData()}})
SchemaInput(content, dt) ==
  [type |-> "schema-input", bubbles |-> TRUE, detail |-> [data |-> getData(content, dt)]]

\* the notification the form's onSubmit handler dispatches on the component
SchemaSubmit(content, dt) ==
  [type |-> "schema-submit", bubbles |-> TRUE, detail |-> [data |-> getData(content, dt)]]

\* new CustomEvent('schema-change', {bubbles: true}) dispatched on the item
\* container; target is the container as it is when the event is dispatched
SchemaChange(container) ==
  [type |-> "schema-change", bubbles |-> TRUE, detail |-> Null, target |-> container]

\* a user step that dispatched the notifications evs
UserStep(name, loc, arg, evs) ==
  /\ ops' = ops + 1
  /\ last' = Op(name, loc, arg)
  /\ events' = evs
  /\ prevented' = FALSE
  /\ UNCHANGED <<schema, data, renderQueued, passes, burst, assigns, detectVars>>

\* what the user can enter into control el
Entries(el) ==
  CASE el.itype = "checkbox" -> {"toggle"}
    [] el.itype = "select" -> SeqToSet(el.opts)
    [] el.itype \in {"number", "range"} -> EditNumbers
    [] el.itype = "hidden" -> {}
    [] OTHER -> EditStrings

\* the user edits the control at loc; its input event bubbles to the form
EditControl(loc, v) ==
  /\ ops < MaxOps
  /\ Interactive
  /\ LET el == NodeAt(Form, loc) IN
       /\ el.k = "ctl"
       /\ v \in Entries(el)
       /\ IF el.itype = "checkbox"
          THEN dom' = WithForm(ReplaceAt(Form, loc, [el EXCEPT !.checked = ~el.checked]))
          ELSE /\ v # el.value
               /\ dom' = WithForm(ReplaceAt(Form, loc, [el EXCEPT !.value = v]))
  /\ UserStep("edit", loc, 0, <<SchemaInput(dom', data)>>)

\* the positions a slider between the schema's minimum and maximum can take
RangeEntries(r) ==
  LET s == r.cl.schema
  IN {IntStr(n) : n \in {IF Has(s, "minimum") THEN s.minimum ELSE 0,
                         IF Has(s, "maximum") THEN s.maximum ELSE 100}}

\* the user drags the slider of the range field at loc:
\* rangeInput's input listener copies the value to the number input
EditRange(loc, v) ==
  /\ ops < MaxOps
  /\ Interactive
  /\ LET r == NodeAt(Form, loc) IN
       /\ r.k = "range"
       /\ v \in RangeEntries(r)
       /\ v # r.ctl.value
       /\ dom' = WithForm(ReplaceAt(Form, loc, [r EXCEPT !.ctl.value = v, !.num = v]))
  /\ UserStep("slide", loc, 0, <<SchemaInput(dom', data)>>)

\* Math.min(Math.max(val, minimum), maximum) for the bounds the schema has
Clamp(s, val) ==
  LET lo == IF Has(s, "minimum") /\ val < s.minimum THEN s.minimum ELSE val
  IN IF Has(s, "maximum") /\ lo > s.maximum THEN s.maximum ELSE lo

\* parseFloat of a control's text: NaN for the empty string
parseFloat(v) == IF v = "" THEN NaN ELSE ToNumber(v)

\* a number input whose notification goes out before the slider is synced
EditRangeNumberNotifyingFirst(loc, v) ==
  /\ ops < MaxOps
  /\ Interactive
  /\ LET r == NodeAt(Form, loc)
         val == parseFloat(v)
     IN /\ r.k = "range"
        /\ v \in EditNumbers
        /\ v # r.num
        /\ dom' = WithForm(ReplaceAt(Form, loc,
                    IF val = NaN
                    THEN [r EXCEPT !.num = v]
                    ELSE [r EXCEPT !.num = v,
                                   !.ctl.value = IntStr(Clamp(r.cl.schema, val.n))]))
  /\ UserStep("type", loc, 0, <<SchemaInput(dom, data)>>)

\* the user types v into the number input beside the slider at loc:
\* numberInput's input listener parses, clamps and copies to the slider
EditRangeNumber(loc, v) ==
  /\ ops < MaxOps
  /\ Interactive
  /\ LET r == NodeAt(Form, loc)
         val == parseFloat(v)
     IN /\ r.k = "range"
        /\ v \in EditNumbers
        /\ v # r.num
        /\ dom' = WithForm(ReplaceAt(Form, loc,
                    IF val = NaN
                    THEN [r EXCEPT !.num = v]
                    ELSE [r EXCEPT !.num = v,
                                   !.ctl.value = IntStr(Clamp(r.cl.schema, val.n))]))
  /\ UserStep("type", loc, 0, <<SchemaInput(dom', data)>>)

\* a submit handler that lets the browser submit the form
SubmitWithoutPreventing ==
  /\ ops < MaxOps
  /\ Interactive
  /\ dom' = dom
  /\ ops' = ops + 1
  /\ last' = Op("submit", <<>>, 0)
  /\ events' = <<SchemaSubmit(dom, data)>>
  /\ prevented' = FALSE
  /\ UNCHANGED <<schema, data, renderQueued, passes, burst, assigns, detectVars>>

\* the form is submitted: onSubmit suppresses the default and notifies
Submit ==
  /\ ops < MaxOps
  /\ Interactive
  /\ dom' = dom
  /\ ops' = ops + 1
  /\ last' = Op("submit", <<>>, 0)
  /\ events' = <<SchemaSubmit(dom, data)>>
  /\ prevented' = TRUE
  /\ UNCHANGED <<schema, data, renderQueued, passes, burst, assigns, detectVars>>

\* schema.maxItems !== undefined && currentCount > schema.maxItems
AtCapacityOffByOne(s, currentCount) == Has(s, "maxItems") /\ currentCount > s.maxItems

\* schema.maxItems !== undefined && currentCount >= schema.maxItems
AtCapacity(s, currentCount) == Has(s, "maxItems") /\ currentCount >= s.maxItems

\* an add button that puts the new item first
ClickAddPrepending(loc) ==
  /\ ops < MaxOps
  /\ Interactive
  /\ LET a == NodeAt(Form, loc) IN
       /\ a.k = "array"
       /\ LET currentCount == Len(a.items)
              itemSchema == ItemSchemaOf(a.cl.schema)
              selectedVariant == getUnionVariants(itemSchema)[a.addSel + 1]
              newItem ==
                IF HasUnion(itemSchema)
                THEN renderArrayItem(selectedVariant, getDefaultValue(selectedVariant),
                                     a.cl.path \o <<Ix(currentCount)>>, currentCount,
                                     a.addSel)
                ELSE renderArrayItem(itemSchema, getDefaultValue(itemSchema),
                                     a.cl.path \o <<Ix(currentCount)>>, currentCount, -1)
          IN IF AtCapacity(a.cl.schema, currentCount)
             THEN /\ dom' = dom
                  /\ UserStep("add-refused", loc, currentCount, <<>>)
             ELSE LET container ==
                        [a EXCEPT !.items = reindexArrayItems(<<newItem>> \o a.items)]
                  IN /\ dom' = WithForm(ReplaceAt(Form, loc, container))
                     /\ UserStep("add", loc, currentCount, <<SchemaChange(container)>>)

\* the add button of the array field at loc: addBtn.onClick / addControls.onClick
ClickAdd(loc) ==
  /\ ops < MaxOps
  /\ Interactive
  /\ LET a == NodeAt(Form, loc) IN
       /\ a.k = "array"
       /\ LET currentCount == Len(a.items)
              itemSchema == ItemSchemaOf(a.cl.schema)
              selectedVariant == getUnionVariants(itemSchema)[a.addSel + 1]
              newItem ==
                IF HasUnion(itemSchema)
                THEN renderArrayItem(selectedVariant, getDefaultValue(selectedVariant),
                                     a.cl.path \o <<Ix(currentCount)>>, currentCount,
                                     a.addSel)
                ELSE renderArrayItem(itemSchema, getDefaultValue(itemSchema),
                                     a.cl.path \o <<Ix(currentCount)>>, currentCount, -1)
          IN IF AtCapacity(a.cl.schema, currentCount)
             THEN /\ dom' = dom
                  /\ UserStep("add-refused", loc, currentCount, <<>>)
             ELSE LET container ==
                        [a EXCEPT !.items = reindexArrayItems(Append(a.items, newItem))]
                  IN /\ dom' = WithForm(ReplaceAt(Form, loc, container))
                     /\ UserStep("add", loc, currentCount, <<SchemaChange(container)>>)

\* the user picks variant j in the add selector of the array at loc; the
\* select's input event bubbles to the form
SelectAddVariant(loc, j) ==
  /\ ops < MaxOps
  /\ Interactive
  /\ LET a == NodeAt(Form, loc) IN
       /\ a.k = "array"
       /\ j \in 0..(Len(getUnionVariants(ItemSchemaOf(a.cl.schema))) - 1)
       /\ j # a.addSel
       /\ dom' = WithForm(ReplaceAt(Form, loc, [a EXCEPT !.addSel = j]))
  /\ UserStep("pick", loc, j, <<SchemaInput(dom', data)>>)

RemoveAt(q, i) == [j \in 1..(Len(q) - 1) |-> IF j < i THEN q[j] ELSE q[j + 1]]

\* the remove button of item number i (1-based position) of the array at loc
ClickRemove(loc, i) ==
  /\ ops < MaxOps
  /\ Interactive
  /\ LET a == NodeAt(Form, loc) IN
       /\ a.k = "array"
       /\ i \in 1..Len(a.items)
       /\ LET container == [a EXCEPT !.items = reindexArrayItems(RemoveAt(a.items, i))]
          IN /\ dom' = WithForm(ReplaceAt(Form, loc, container))
             /\ UserStep("remove", loc, i - 1, <<SchemaChange(container)>>)

\* the content region the change handler builds for variant newIndex of
\* union u (current is the value collected under the union before the change)
SwitchedContent(u, newIndex, current) ==
  LET newVariant == getUnionVariants(u.cl.schema)[newIndex + 1]
      defaultValue == getDefaultValue(newVariant)
  IN renderVariantContent(newVariant, defaultValue, u.cl.path)

\* the change handler of the variant selector of the union at loc
ChangeVariant(loc, newIndex) ==
  /\ ops < MaxOps
  /\ Interactive
  /\ LET u == NodeAt(Form, loc) IN
       /\ u.k = "union"
       /\ LET variants == getUnionVariants(u.cl.schema) IN
            /\ newIndex \in 0..(Len(variants) - 1)
            /\ newIndex # u.sel
            /\ dom' = WithForm(ReplaceAt(Form, loc,
                        [u EXCEPT !.sel = newIndex,
                                  !.dvariant = newIndex,
                                  !.kids = SwitchedContent(u, newIndex,
                                             GetPath(getData(dom, data), u.cl.path))]))
  /\ UserStep("switch", loc, newIndex, <<>>)

\* the positions of the form's nodes of kind k
LocsOf(k) == IF Interactive THEN {l \in AllLocs(Form) : NodeAt(Form, l).k = k} ELSE {}

Next ==
  \/ \E s \in Schemas : SetSchema(s)
  \/ \E d \in DataValues : SetData(d)
  \/ RenderTick
  \/ \E loc \in LocsOf("ctl") : \E v \in Entries(NodeAt(Form, loc)) : EditControl(loc, v)
  \/ \E loc \in LocsOf("range") : \E v \in RangeEntries(NodeAt(Form, loc)) : EditRange(loc, v)
  \/ \E loc \in LocsOf("range") : \E v \in EditNumbers : EditRangeNumber(loc, v)
  \/ Submit
  \/ \E loc \in LocsOf("array") : ClickAdd(loc)
  \/ \E loc \in LocsOf("array") :
       \E j \in 0..(Len(getUnionVariants(ItemSchemaOf(NodeAt(Form, loc).cl.schema))) - 1) :
         SelectAddVariant(loc, j)
  \/ \E loc \in LocsOf("array") :
       \E i \in 1..Len(NodeAt(Form, loc).items) : ClickRemove(loc, i)
  \/ \E loc \in LocsOf("union") :
       \E j \in 0..(Len(getUnionVariants(NodeAt(Form, loc).cl.schema)) - 1) :
         ChangeVariant(loc, j)

Spec == Init /\ [][Next]_vars

(***************************************************************************)
(* detectVariant on its own: a value and a variant list are chosen, then   *)
(* the detector is applied                                                 *)
(***************************************************************************)
TagAVariant ==
  [type |-> "object",
   properties |-> <<P("type", [const |-> Str("a")]), P("name", StringSchema)>>]

TagBVariant ==
  [type |-> "object",
   properties |-> <<P("type", [const |-> Str("b")]), P("name", StringSchema)>>]

\* the block variants of the union-array test without their titles
TextBlockVariant ==
  [type |-> "object",
   properties |-> <<P("kind", [type |-> "string", const |-> Str("text")]),
                    P("content", StringSchema)>>]

\* variants that declare no type
KindOnlyVariant == [properties |-> <<P("kind", [const |-> Str("image")])>>]
BareVariant == [description |-> "anything"]

DetectVariantLists ==
  { <<>>,
    <<TextBlockVariant, KindOnlyVariant, BareVariant>>,
    <<ProductVariant, ServiceVariant>>,
    <<ServiceVariant, ProductVariant>>,
    <<TagAVariant, TagBVariant>>,
    <<TagBVariant, TagAVariant>>,
    <<StringSchema, [type |-> "integer"]>>,
    <<StringSchema, [const |-> Str("x")]>>,
    <<[const |-> Str("x")], [const |-> Num(1)]>>,
    <<[type |-> "boolean"], [type |-> "array"], [type |-> "object"]>> }

DetectValues ==
  { Undef, Null, Str("x"), Str("y"), Num(1), Bool(TRUE), EmptyArr, EmptyObj,
    Obj(<< <<"type", Str("a")>>, <<"name", Str("n")>> >>),
    Obj(<< <<"type", Str("b")>>, <<"name", Str("n")>> >>),
    Obj(<< <<"type", Str("product")>>, <<"name", Str("n")>>, <<"price", Num(5)>> >>),
    Obj(<< <<"type", Str("service")>>, <<"name", Str("Consulting")>>,
           <<"hourlyRate", Num(15)>> >>) }

InitDetect ==
  /\ schema = EmptySchema
  /\ data = EmptyObj
  /\ renderQueued = TRUE
  /\ dom = <<>>
  /\ passes = 0
  /\ burst = 0
  /\ assigns = 0
  /\ last = Op("init", <<>>, 0)
  /\ ops = 0
  /\ events = <<>>
  /\ prevented = FALSE
  /\ dval \in DetectValues
  /\ dvars \in DetectVariantLists
  /\ dres = -1
  /\ dimpl \in {"blueprint", "component"}
  /\ dlabels = <<>>
  /\ proot = EmptyObj
  /\ ptodo = {}
  /\ pdone = {}

DetectStep ==
  /\ dres = -1
  /\ dres' = IF dimpl = "blueprint" THEN detectVariant(dval, dvars)
             ELSE detectVariantSinglePass(dval, dvars)
  /\ dlabels' = [i \in 1..Len(dvars) |-> getVariantLabel(dvars[i], i - 1)]
  /\ UNCHANGED <<schema, data, renderQueued, dom, passes, burst, assigns, last, ops,
                 events, prevented, dval, dvars, dimpl, proot, ptodo, pdone>>

NextDetect == DetectStep

SpecDetect == InitDetect /\ [][NextDetect]_vars

(***************************************************************************)
(* setValueByPath applied to paths as the renderer generates them: a       *)
(* property name first, then property names and item indices; no path is a *)
(* prefix of another.                                                      *)
(***************************************************************************)
PathList ==
  << <<Nm("name")>>,
     <<Nm("tags"), Ix(0)>>,
     <<Nm("tags"), Ix(1)>>,
     <<Nm("orders"), Ix(0), Nm("id")>>,
     <<Nm("orders"), Ix(1), Nm("items"), Ix(0)>>,
     <<Nm("grid"), Ix(0), Ix(1)>> >>

\* the value written at path number i
PathValue(i) == Num(i)

InitPaths ==
  /\ schema = EmptySchema
  /\ data = EmptyObj
  /\ renderQueued = TRUE
  /\ dom = <<>>
  /\ passes = 0
  /\ burst = 0
  /\ assigns = 0
  /\ last = Op("init", <<>>, 0)
  /\ ops = 0
  /\ events = <<>>
  /\ prevented = FALSE
  /\ dval = Undef
  /\ dvars = <<>>
  /\ dres = -1
  /\ dimpl = "blueprint"
  /\ dlabels = <<>>
  /\ proot = EmptyObj
  /\ ptodo \in {S \in SUBSET (1..Len(PathList)) : Cardinality(S) <= MaxWrites}
  /\ pdone = {}

\* one iteration of the collector's loop: setValueByPath(data, path, value)
WriteStep(i) ==
  /\ i \in ptodo \ pdone
  /\ proot' = setValueByPath(proot, PathList[i], PathValue(i))
  /\ pdone' = pdone \cup {i}
  /\ UNCHANGED <<schema, data, renderQueued, dom, passes, burst, assigns, last, ops,
                 events, prevented, dval, dvars, dres, dimpl, dlabels, ptodo>>

NextPaths == \E i \in 1..Len(PathList) : WriteStep(i)

SpecPaths == InitPaths /\ [][NextPaths]_vars

(***************************************************************************)
(* Properties                                                              *)
(***************************************************************************)
RECURSIVE ContainsUnion(_)
ContainsUnion(s) ==
  \/ HasUnion(s)
  \/ Has(s, "items") /\ ContainsUnion(s.items)
  \/ Has(s, "properties")
       /\ \E i \in 1..Len(s.properties) : ContainsUnion(s.properties[i].schema)

RECURSIVE Conforms(_, _)
\* value v has the shape schema s describes
Conforms(s, v) ==
  IF Has(s, "const") THEN v = s.const
  ELSE IF Has(s, "enum") THEN v \in SeqToSet(s.enum)
  ELSE CASE TypeOf(s) = "string" -> v.t = "str"
         [] TypeOf(s) \in {"number", "integer"} -> v.t = "num"
         [] TypeOf(s) = "boolean" -> v.t = "bool"
         [] TypeOf(s) = "array" ->
              /\ v.t = "arr"
              /\ DOMAIN v.e = {Ix(i) : i \in 0..(ArrLen(v) - 1)}
              /\ Has(s, "maxItems") => ArrLen(v) <= s.maxItems
              /\ \A tok \in DOMAIN v.e : Conforms(ItemSchemaOf(s), v.e[tok])
         [] TypeOf(s) = "object" ->
              /\ v.t = "obj"
              /\ Has(s, "properties")
              /\ DOMAIN v.e = {Nm(s.properties[i].key) : i \in 1..Len(s.properties)}
              /\ \A i \in 1..Len(s.properties) :
                   Conforms(s.properties[i].schema, v.e[Nm(s.properties[i].key)])
         [] OTHER -> FALSE

\* the schema the rendered form was built from is the assigned one
Settled == ~renderQueued /\ HasForm

RECURSIVE PlainSchema(_)
\* s combines only primitive types, objects and arrays
PlainSchema(s) ==
  /\ ~HasUnion(s) /\ ~Has(s, "enum") /\ ~Has(s, "const")
  /\ Has(s, "items") => PlainSchema(s.items)
  /\ Has(s, "properties") =>
       \A i \in 1..Len(s.properties) : PlainSchema(s.properties[i].schema)

\* C1: for a schema without unions and a value D of that schema's shape,
\* assigning data = D and, once rendered, calling getData() returns a value
\* deep-equal to D, for all primitive, nested-object, array and
\* array-of-object combinations.
C1_RoundTrip ==
  (Settled /\ last.op = "render" /\ PlainSchema(schema) /\ Conforms(schema, data))
    => getData(dom, data) = data

RECURSIVE TypesPreserved(_, _)
\* v holds no string where s declares integer, number or boolean
TypesPreserved(s, v) ==
  IF HasUnion(s) THEN TRUE
  ELSE CASE TypeOf(s) \in {"number", "integer", "boolean"} -> v.t # "str"
         [] TypeOf(s) = "array" ->
              v.t = "arr" => \A tok \in DOMAIN v.e : TypesPreserved(ItemSchemaOf(s), v.e[tok])
         [] TypeOf(s) = "object" ->
              (v.t = "obj" /\ Has(s, "properties")) =>
                \A i \in 1..Len(s.properties) :
                  HasKey(v, Nm(s.properties[i].key)) =>
                    TypesPreserved(s.properties[i].schema, v.e[Nm(s.properties[i].key)])
         [] OTHER -> TRUE

\* C2: in every value getData() returns, a field whose schema type is
\* integer or number is never a string and a boolean field is never a
\* string, whatever edits preceded the call.
C2_TypePreservation ==
  Settled => TypesPreserved(schema, getData(dom, data))

RECURSIVE ArraysIn(_)
\* all array fields below node, nested ones included
ArraysIn(node) ==
  (IF node.k = "array" THEN {node} ELSE {})
    \cup UNION {ArraysIn(KidsOf(node)[i]) : i \in 1..Len(KidsOf(node))}

\* item number k (1-based) of array field a carries index k-1 and every bound
\* control inside it has k-1 as the index segment that belongs to a, in both
\* the binding attribute and the native name
ItemIndexed(a, k) ==
  LET p == Len(a.cl.path)
      cs == Controls(a.items[k].body)
  IN /\ a.items[k].index = k - 1
     /\ \A i \in 1..Len(cs) :
          /\ Len(cs[i].path) > p
          /\ cs[i].path[p + 1] = Ix(k - 1)
          /\ cs[i].hasName => cs[i].name = cs[i].path

\* C3: after any sequence of add and remove actions the items of every array
\* field carry indices 0..n-1 in document order and every bound control
\* inside item k has a path whose index segment for that array is k.
C3_Reindexed ==
  HasForm => \A a \in ArraysIn(Form) : \A k \in 1..Len(a.items) : ItemIndexed(a, k)

\* array arr with the element at index i deleted
DeleteIndex(arr, i) ==
  [t |-> "arr",
   e |-> [tok \in {Ix(IF x.ix > i THEN x.ix - 1 ELSE x.ix) : x \in (DOMAIN arr.e) \ {Ix(i)}} |->
            IF Ix(tok.ix) \in DOMAIN arr.e /\ tok.ix < i
            THEN arr.e[tok] ELSE arr.e[Ix(tok.ix + 1)]]]

\* C4: removing the item at index i from an array field whose collected
\* value is [v0..vn-1] makes getData() return that array with exactly
\* element i deleted (stated here for arrays of two or more items, whose
\* result is not empty).
C4_RemoveDeletes ==
  [][(last'.op = "remove" /\ ops' = ops + 1) =>
       LET a == NodeAt(Form, last'.loc)
           before == GetPath(getData(dom, data), a.path)
           after == GetPath(getData(dom', data'), a.path)
       IN (before.t = "arr" /\ ArrLen(before) = Len(a.items) /\ Len(a.items) >= 2)
            => after = DeleteIndex(before, last'.arg)]_vars

\* the const variant v declares for its child property key (undefined if none)
ChildConst(v, key) ==
  IF TypeOf(v) = "object" /\ Has(v, "properties")
       /\ \E i \in 1..Len(v.properties) :
            v.properties[i].key = key /\ Has(v.properties[i].schema, "const")
  THEN LET i == CHOOSE j \in 1..Len(v.properties) :
                  v.properties[j].key = key /\ Has(v.properties[j].schema, "const")
       IN v.properties[i].schema.const
  ELSE Undef

\* every variant is an object variant declaring child key with a const, and
\* the consts are pairwise distinct
Discriminated(variants, key) ==
  /\ Len(variants) >= 2
  /\ \A i \in 1..Len(variants) : ChildConst(variants[i], key) # Undef
  /\ \A i, j \in 1..Len(variants) :
       i # j => ChildConst(variants[i], key) # ChildConst(variants[j], key)

\* C5: in a union whose object variants each declare a discriminator child
\* with a distinct const, a value whose discriminator equals variant k's
\* const is detected as variant k, whatever earlier variants look like.
C5_DiscriminatorFirst ==
  (dres # -1 /\ Discriminated(dvars, "type")) =>
    \A k \in 1..Len(dvars) :
      GetProp(dval, Nm("type")) = ChildConst(dvars[k], "type") => dres = k - 1

\* what a freshly switched content region of variant v collects to: each
\* child's const, else its default value
DefaultFields(v) ==
  IF TypeOf(v) = "object" /\ Has(v, "properties")
  THEN Obj([i \in 1..Len(v.properties) |->
              <<v.properties[i].key,
                IF Has(v.properties[i].schema, "const")
                THEN v.properties[i].schema.const
                ELSE getDefaultValue(v.properties[i].schema)>>])
  ELSE getDefaultValue(v)

C7_MaxItems ==
  [][(last'.op \in {"add", "add-refused"} /\ ops' = ops + 1) =>
       LET a == NodeAt(Form, last'.loc)
           b == NodeAt(dom'[FormIndex(dom')], last'.loc)
           s == a.cl.schema
       IN IF Has(s, "maxItems") /\ Len(a.items) >= s.maxItems
          THEN /\ dom' = dom
               /\ getData(dom', data') = getData(dom, data)
          ELSE /\ Len(b.items) = Len(a.items) + 1
               /\ Has(s, "maxItems") => Len(b.items) <= s.maxItems]_vars

\* an append was refused on a full array
C7_Witness ==
  /\ last.op = "add-refused"
  /\ HasForm
  /\ Len(NodeAt(Form, last.loc).items) >= NodeAt(Form, last.loc).cl.schema.maxItems

\* C8: schema and data assignments run no render pass themselves; the next
\* tick runs exactly one pass for all of them, built from the last assigned
\* schema and data, and leaves no pass queued.
C8_Coalesced ==
  [][/\ (last'.op \in {"schema", "data"} /\ assigns' = assigns + 1) =>
          (passes' = 0 /\ dom' = dom /\ renderQueued' /\ burst' = burst + 1)
     /\ passes' > passes =>
          /\ passes' = 1
          /\ renderQueued /\ ~renderQueued'
          /\ burst' = 0
          /\ schema' = schema /\ data' = data
          /\ dom' = render(<<>>, schema, data)]_vars

\* one pass rendered a burst of two or more assignments
C8_Witness == last.op = "render" /\ last.arg >= 2 /\ HasForm

\* the root assembled from the bound controls now in the component
FreshRoot(content) ==
  CollectFrom(EmptyObj, Flatten([i \in 1..Len(content) |-> Controls(content[i])]))

\* C9 (as claimed): getData() returns a freshly assembled root built from the
\* current DOM controls, never the bound data value, in every component
\* state.
C9_AlwaysFresh == getData(dom, data) = FreshRoot(dom)

\* C9 (amended): while a form is rendered getData() returns a freshly
\* assembled root built from the current DOM controls; while the component
\* holds no form it returns the bound data value.
C9_FreshWhenRendered ==
  /\ HasForm => getData(dom, data) = FreshRoot(dom)
  /\ ~HasForm => getData(dom, data) = data

\* a rendered form was edited, so the collected root differs from the data
C9_Witness == HasForm /\ last.op = "edit" /\ ~renderQueued /\ getData(dom, data) # data

\* C10: whenever a render pass runs while no schema is assigned, the
\* component's content is exactly the empty-state placeholder.
C10_EmptyState ==
  (last.op = "render" /\ ~Has(schema, "type") /\ ~Has(schema, "properties"))
    => dom = <<EmptyState>>

\* the empty state was rendered after a form had been rendered and used
C10_Witness ==
  last.op = "render" /\ schema = EmptySchema /\ ops >= 1 /\ dom = <<EmptyState>>

\* C11: assigning any schema node (object, array, primitive, enum, const or
\* union at the root) makes the next render pass build a form from it: after
\* a pass that completed with a schema node assigned, the component holds a
\* form, not the empty-state placeholder.
C11_SchemaRendered ==
  (last.op = "render" /\ schema # EmptySchema /\ dom # <<>>) => HasForm

\* the notification an input event must produce for the component as it is
\* after the event's own handlers ran
InputNotification(content, dt) ==
  [type |-> "schema-input", bubbles |-> TRUE, detail |-> [data |-> getData(content, dt)]]

\* C12: every input event of a control inside the rendered form (a bound
\* control, a slider, the number input beside a slider, a selector) produces
\* exactly one bubbling schema-input notification whose detail.data equals
\* what getData() returns once the control's own handlers have run.
C12_InputNotified ==
  [][(last'.op \in {"edit", "slide", "type", "pick"} /\ ops' = ops + 1) =>
       events' = <<InputNotification(dom', data')>>]_vars

\* 42 was typed beside a slider of maximum 10: the notification carries the
\* clamped value the sync handler gave the slider
C12_Witness ==
  /\ last.op = "type"
  /\ Len(events) = 1
  /\ events[1].type = "schema-input"
  /\ GetPath(events[1].detail.data, <<Nm("rating")>>) = Num(10)

\* C13: every submission of the rendered form has its default behaviour
\* suppressed and produces exactly one bubbling schema-submit notification
\* whose detail.data equals getData() at that moment; it changes neither the
\* DOM nor the component's schema and data.
C13_SubmitNotified ==
  [][(last'.op = "submit" /\ ops' = ops + 1) =>
       /\ prevented'
       /\ events' = <<[type |-> "schema-submit", bubbles |-> TRUE,
                       detail |-> [data |-> getData(dom, data)]]>>
       /\ dom' = dom /\ schema' = schema /\ data' = data
       /\ renderQueued' = renderQueued]_vars

\* an edited form was submitted
C13_Witness ==
  /\ last.op = "submit"
  /\ ops >= 2
  /\ prevented
  /\ Len(events) = 1
  /\ events[1].detail.data # data

\* C14: every add or remove that changes an array's items emits exactly one
\* bubbling schema-change notification without payload, dispatched after
\* re-indexing, so that a listener observes contiguous indices and paths in
\* the container; an append refused because of maxItems emits none.
C14_ChangeNotified ==
  [][(last'.op \in {"add", "remove", "add-refused"} /\ ops' = ops + 1) =>
       IF last'.op = "add-refused" THEN events' = <<>>
       ELSE /\ Len(events') = 1
            /\ events'[1].type = "schema-change"
            /\ events'[1].bubbles
            /\ events'[1].detail = Null
            /\ events'[1].target = NodeAt(dom'[FormIndex(dom')], last'.loc)
            /\ \A k \in 1..Len(events'[1].target.items) :
                 ItemIndexed(events'[1].target, k)]_vars

RECURSIVE ConstHeld(_, _)
\* v holds the const of every const node of s outside unions
ConstHeld(s, v) ==
  IF HasUnion(s) THEN TRUE
  ELSE IF Has(s, "const") THEN v = s.const
  ELSE CASE TypeOf(s) = "object" /\ Has(s, "properties") ->
              \A i \in 1..Len(s.properties) :
                ConstHeld(s.properties[i].schema, GetProp(v, Nm(s.properties[i].key)))
         [] TypeOf(s) = "array" ->
              v.t = "arr" => \A tok \in DOMAIN v.e : ConstHeld(ItemSchemaOf(s), v.e[tok])
         [] OTHER -> TRUE

\* the collected value the root schema node describes: the root itself for a
\* schema with properties, the value under 'data' otherwise
RootValue ==
  IF Has(schema, "properties") THEN getData(dom, data)
  ELSE GetProp(getData(dom, data), Nm("data"))

RECURSIVE KeyPresent(_, _)
\* the key (or array slot) path leads to exists in v, whatever it holds
KeyPresent(v, path) ==
  IF Len(path) = 0 THEN TRUE
  ELSE HasKey(v, Head(path)) /\ KeyPresent(v.e[Head(path)], Tail(path))

\* C16: when a control declared number or integer holds the empty string at
\* collection time, the collected result has no key (and no array slot) for
\* that control's path, not even one holding undefined.
C16_EmptyNumberOmitted ==
  Settled =>
    \A i \in 1..Len(Controls(Form)) :
      LET el == Controls(Form)[i] IN
      (el.dtype \in {"number", "integer"} /\ el.value = "" /\ el.itype # "checkbox")
        => ~KeyPresent(getData(dom, data), el.path)

\* C17: a render pass never raises, whatever schema and data are assigned
\* (a pass that raised leaves the component without any content).
C17_NeverRaises == last.op = "render" => dom # <<>>

ControlValues(node) ==
  LET cs == Controls(node)
  IN [i \in 1..Len(cs) |->
        [value |-> cs[i].value, checked |-> cs[i].checked, dtype |-> cs[i].dtype]]

\* C19: a permitted append on an array field of n items yields n+1 items; the
\* n existing items keep their order, indices and control values and the new
\* item is last, at index n, its controls initialised from the default value
\* of the item schema (of the variant chosen in the add selector for a union
\* item schema).
C19_Append ==
  [][(last'.op = "add" /\ ops' = ops + 1) =>
       LET a == NodeAt(Form, last'.loc)
           b == NodeAt(dom'[FormIndex(dom')], last'.loc)
           n == Len(a.items)
           itemSchema == ItemSchemaOf(a.cl.schema)
           chosen == IF HasUnion(itemSchema)
                     THEN getUnionVariants(itemSchema)[a.addSel + 1]
                     ELSE itemSchema
       IN /\ Len(b.items) = n + 1
          /\ \A k \in 1..n :
               /\ b.items[k].index = k - 1
               /\ b.items[k].index = a.items[k].index
               /\ b.items[k].variant = a.items[k].variant
               /\ ControlValues(b.items[k].body) = ControlValues(a.items[k].body)
          /\ b.items[n + 1].index = n
          /\ HasUnion(itemSchema) => b.items[n + 1].variant = a.addSel
          /\ ControlValues(b.items[n + 1].body) =
               ControlValues(renderField(chosen, getDefaultValue(chosen),
                                         a.cl.path \o <<Ix(n)>>))]_vars

\* the second variant was chosen in the add selector and appended to a cart
\* of two items
C19_Witness ==
  /\ last.op = "add"
  /\ HasForm
  /\ LET b == NodeAt(Form, last.loc) IN
       /\ b.addSel = 1
       /\ Len(b.items) = 3
       /\ b.items[3].variant = 1
       /\ b.items[3].index = 2

\* the property keys of an object variant, as path tokens
VariantKeys(v) ==
  IF Has(v, "properties") THEN {Nm(v.properties[i].key) : i \in 1..Len(v.properties)}
  ELSE {}

\* C20: for an array whose item schema is a union, rendering data [v0..vn-1]
\* produces n items in order; item i is rendered with the fields of the
\* variant detected for vi alone and records that variant index, and
\* getData() returns item i's fields under index i.
C20_UnionItems ==
  (last.op = "render" /\ HasForm) =>
    \A a \in ArraysIn(Form) :
      LET itemSchema == ItemSchemaOf(a.cl.schema)
          variants == getUnionVariants(itemSchema)
          value == GetPath(data, a.cl.path)
      IN (HasUnion(itemSchema) /\ value.t = "arr") =>
           /\ Len(a.items) = ArrLen(value)
           /\ \A i \in 0..(ArrLen(value) - 1) :
                LET vi == GetProp(value, Ix(i))
                    d == detectVariant(vi, variants)
                    item == a.items[i + 1]
                IN /\ item.index = i
                   /\ item.variant = d
                   /\ item.body = renderField(variants[d + 1], vi, a.cl.path \o <<Ix(i)>>)
                   /\ LET got == GetPath(getData(dom, data), a.cl.path \o <<Ix(i)>>)
                      IN got.t = "obj" /\ DOMAIN got.e = VariantKeys(variants[d + 1])

\* a cart of a service followed by a product was rendered
C20_Witness ==
  /\ last.op = "render"
  /\ HasForm
  /\ schema = CartSchema
  /\ data = CartData
  /\ LET a == NodeAt(Form, <<1>>) IN
       /\ Len(a.items) = 2
       /\ a.items[1].variant = 1
       /\ a.items[2].variant = 0
       /\ GetPath(getData(dom, data), <<Nm("items"), Ix(1), Nm("price")>>) = Num(5)

(***************************************************************************)
(* Properties of variant detection and variant labels (SpecDetect).        *)
(***************************************************************************)
\* the variants of the list whose literal const is strictly equal to the value
ConstHits(value, variants) ==
  {i \in 1..Len(variants) : Has(variants[i], "const") /\ value = variants[i].const}

\* C21: when some variant has a literal const strictly equal to the value,
\* detection returns the index of the first such variant, whatever its
\* position and whatever earlier variants match the value by declared type.
C21_ConstPassFirst ==
  (dres # -1 /\ ~Nullish(dval) /\ ConstHits(dval, dvars) # {}) =>
    dres = FirstOf(ConstHits(dval, dvars)) - 1

\* C22: detection returns 0 for a null or undefined value and when no
\* variant matches, and its result always addresses a variant of the list.
C22_ResultInRange ==
  dres # -1 =>
    /\ Nullish(dval) => dres = 0
    /\ (\A i \in 1..Len(dvars) :
          ~(Has(dvars[i], "const") /\ dval = dvars[i].const)
          /\ ~TypeMatches(dvars[i], dval)) => dres = 0
    /\ dres \in 0..(Len(dvars) - 1)

PrimitiveTypes == {"string", "number", "integer", "boolean", "null"}

\* the discriminator children of an object variant, in declaration order
NamedChildren(variant) ==
  IF Has(variant, "properties")
  THEN {i \in 1..Len(variant.properties) :
          /\ variant.properties[i].key \in {"type", "kind", "_type"}
          /\ Has(variant.properties[i].schema, "const")}
  ELSE {}

\* the label the priority list gives variant i (counted from 0)
PriorityLabel(variant, i) ==
  IF Has(variant, "title") /\ variant.title # "" THEN variant.title
  ELSE IF Has(variant, "const") THEN ToStr(variant.const)
  ELSE IF TypeOf(variant) \in PrimitiveTypes THEN TypeOf(variant)
  ELSE IF NamedChildren(variant) # {}
       THEN ToStr(variant.properties[FirstOf(NamedChildren(variant))].schema.const)
  ELSE "Option " \o NatStr(i + 1)

\* C30: the label of variant i is its title, else its stringified const,
\* else its primitive type name, else for an object variant the stringified
\* const of its first child named type, kind or _type, else "Option i+1".
C30_LabelPriority ==
  dres # -1 =>
    \A i \in 1..Len(dvars) : dlabels[i] = PriorityLabel(dvars[i], i - 1)

(***************************************************************************)
(* Properties of the collector, the re-indexing and the list manager.      *)
(***************************************************************************)
RECURSIVE ContentControls(_)
\* the bound controls of the field regions below node in document order,
\* looking at no variant selector
ContentControls(node) ==
  CASE node.k = "ctl" -> IF node.path # NoPath THEN <<node>> ELSE <<>>
    [] node.k = "range" -> <<node.ctl>>
    [] OTHER -> LET kids == KidsOf(node)
                IN Flatten([i \in 1..Len(kids) |-> ContentControls(kids[i])])

RECURSIVE UnionsIn(_)
UnionsIn(node) ==
  (IF node.k = "union" THEN {node} ELSE {})
    \cup UNION {UnionsIn(KidsOf(node)[i]) : i \in 1..Len(KidsOf(node))}

\* C23: the collector never takes a variant selector: getData() is what the
\* controls of the content regions alone give, and where the selected
\* variant is a primitive bound to the union's own path p the value at p is
\* the value of that content control.
C23_SelectorSkipped ==
  HasForm =>
    LET got == getData(dom, data)
        taken == Controls(Form)
    IN /\ \A i \in 1..Len(taken) : ~taken[i].union
       /\ got = CollectFrom(EmptyObj, ContentControls(Form))
       /\ \A u \in UnionsIn(Form) :
            (Len(u.kids) = 1 /\ u.kids[1].k = "ctl" /\ u.kids[1].path = u.selPath)
              => GetPath(got, u.selPath) = ControlValue(u.kids[1])

\* the integer variant of a union of primitives was selected: its selector
\* holds option 1 while the data at its path holds the content value 0
C23_Witness ==
  /\ HasForm
  /\ schema = LinesSchema
  /\ last.op = "switch"
  /\ \E u \in UnionsIn(Form) :
       /\ SelectorOf(u).value = "1"
       /\ SelectorOf(u).path = u.selPath
       /\ Len(u.kids) = 1
       /\ u.kids[1].path = u.selPath
       /\ GetPath(getData(dom, data), u.selPath) = Num(0)

\* the sequence of items that are still in the container after the step
Survivors(a, op, arg) == IF op = "remove" THEN RemoveAt(a.items, arg + 1) ELSE a.items

\* paths p1 and p2 differ at most in segment number pos
SameBut(p1, p2, pos) ==
  /\ Len(p1) = Len(p2)
  /\ \A j \in (1..Len(p1)) \ {pos} : p1[j] = p2[j]

\* C26: re-indexing the items of the array at path q rewrites, in the paths
\* of the controls of its items, only the index segment that follows q;
\* enclosing and deeper index segments stay as they were.
C26_ReindexFrame ==
  [][(last'.op \in {"add", "remove"} /\ ops' = ops + 1) =>
       LET a == NodeAt(Form, last'.loc)
           b == NodeAt(dom'[FormIndex(dom')], last'.loc)
           old == Survivors(a, last'.op, last'.arg)
           pos == Len(a.cl.path) + 1
       IN \A k \in 1..Len(old) :
            LET c1 == ContentControls(old[k].body)
                c2 == ContentControls(b.items[k].body)
            IN /\ Len(c1) = Len(c2)
               /\ \A i \in 1..Len(c1) : SameBut(c1[i].path, c2[i].path, pos)]_vars

MaxOf(S) == IF S = {} THEN 0 ELSE CHOOSE m \in S : \A j \in S : j <= m

RECURSIVE ArrayDepth(_)
\* how deep array fields are nested in schema s
ArrayDepth(s) ==
  MaxOf((IF Has(s, "items") THEN {1 + ArrayDepth(s.items)} ELSE {})
        \cup (IF Has(s, "properties")
              THEN {ArrayDepth(s.properties[i].schema) : i \in 1..Len(s.properties)}
              ELSE {})
        \cup {ArrayDepth(getUnionVariants(s)[i]) : i \in 1..Len(getUnionVariants(s))})

\* C27: the controls that a variant switch inside an array item or an append
\* creates after the array was re-indexed carry the current index of their
\* item (stated for schemas whose arrays are not nested in one another).
C27_FreshControlsIndexed ==
  [][(last'.op \in {"switch", "add"} /\ ops' = ops + 1 /\ ArrayDepth(schema) <= 1) =>
       \A a \in ArraysIn(dom'[FormIndex(dom')]) :
         \A k \in 1..Len(a.items) : ItemIndexed(a, k)]_vars

\* C29: the remove button of an array that declares minItems always removes
\* its item, down to zero items, and getData() then holds the shorter array.
C29_MinItemsIgnored ==
  [][(last'.op = "remove" /\ ops' = ops + 1
      /\ Has(NodeAt(Form, last'.loc).cl.schema, "minItems")) =>
       LET a == NodeAt(Form, last'.loc)
           b == NodeAt(dom'[FormIndex(dom')], last'.loc)
           got == GetPath(getData(dom', data'), a.cl.path)
       IN /\ Len(b.items) = Len(a.items) - 1
          /\ got.t = "arr"
          /\ ArrLen(got) = Len(b.items)]_vars

\* C24: after an edit of the slider or of its companion number input both
\* controls hold the same value; a value typed into the companion outside
\* [minimum, maximum] leaves the companion holding the clamped value.
C24_RangePairSynced ==
  [][(last'.op \in {"slide", "type"} /\ ops' = ops + 1) =>
       LET r == NodeAt(dom'[FormIndex(dom')], last'.loc)
       IN r.num = r.ctl.value]_vars

\* a render pass is the step that takes the queued render
RenderPass == renderQueued /\ ~renderQueued' /\ last'.op = "render"

NoSchema(s) == ~Has(s, "type") /\ ~Has(s, "properties")

\* C28 as stated: a render pass that runs with no schema set after a form
\* was rendered leaves that form and its controls as they were.
C28_NoSchemaKeepsForm ==
  [][(RenderPass /\ NoSchema(schema) /\ HasForm) => dom' = dom]_vars

\* C28: every render pass fully replaces the component's content; a pass
\* that runs with no schema set removes the form rendered before, leaving
\* only the empty-state placeholder, and a pass with a schema builds what a
\* pass over an empty component builds.
C28_AlwaysReplaced ==
  [][RenderPass =>
       /\ (NoSchema(schema) /\ HasForm) =>
            /\ FormIndex(dom') = 0
            /\ \A i \in 1..Len(dom') : dom'[i] = EmptyState /\ Len(Controls(dom'[i])) = 0
            /\ Len(dom') = 1
       /\ ~NoSchema(schema) => dom' = render(<<>>, schema, data)]_vars

\* the schema was taken away from a component whose form had been used, and
\* the next pass left the placeholder in place of the form
C28_Witness ==
  /\ last.op = "render"
  /\ NoSchema(schema)
  /\ assigns >= 2
  /\ ops >= 1
  /\ FormIndex(dom) = 0
  /\ Len(dom) = 1

(***************************************************************************)
(* Properties of setValueByPath (SpecPaths).                               *)
(***************************************************************************)
\* C25: writing leaf paths, none a prefix of another, into an initially
\* empty root in any order: the written path reads back its value, every
\* container created on the way is a list exactly when the segment after it
\* is an index, and the paths written before still read back their values.
C25_PathWrites ==
  [][\A i \in pdone' \ pdone :
       LET path == PathList[i] IN
       /\ proot' # Throw
       /\ GetPath(proot', path) = PathValue(i)
       /\ \A k \in 1..(Len(path) - 1) :
            GetPath(proot', SubSeq(path, 1, k)).t
              = IF IsNumericPart(path[k + 1]) THEN "arr" ELSE "obj"
       /\ \A j \in pdone : GetPath(proot', PathList[j]) = PathValue(j)]_vars

\* two items of one list were written last-first beside a nested path, and
\* all three read back
C25_Witness ==
  /\ pdone = {2, 3, 5}
  /\ GetPath(proot, PathList[2]) = Num(2)
  /\ GetPath(proot, PathList[3]) = Num(3)
  /\ GetPath(proot, PathList[5]) = Num(5)
  /\ GetPath(proot, <<Nm("tags")>>).t = "arr"
  /\ GetPath(proot, <<Nm("orders"), Ix(1)>>).t = "obj"

====
